---- MODULE Spec2Model ----
(***************************************************************************)
(* Model of the data shaping of the metamist web client: the cost          *)
(* aggregation of CromwellDataProcGrid (prepareTotalRow, prepareDetails    *)
(* and the combination of their rows; pages/project/ProjectGrid.tsx,       *)
(* second unit, l. 458-871), the table body of ProjectGrid and the value   *)
(* formatter of SeqInfo_.                                                  *)
(*                                                                         *)
(* The specifications share the variables:                                 *)
(*   Spec      one call of prepareTotalRow or prepareDetails, one record   *)
(*             of the input array per step of its forEach loop;            *)
(*   SpecGrid  the body of CromwellDataProcGrid: the eight calls and the   *)
(*             combination of their results;                               *)
(*   SpecLayout the table body of ProjectGrid, in its two versions         *)
(*             (pages/project/ProjectGrid.tsx l. 280-450 and               *)
(*             LoadingDuck.tsx l. 379-551): the rows of one participant;   *)
(*   SpecFormat one call of safeValue of SeqInfo_ (src/unnamed/part_000    *)
(*             l. 76-93), of formatBytes (l. 26-36) or of one of the two   *)
(*             external-id formatters;                                     *)
(*   SpecFilter the column filters of ProjectGrid in LoadingDuck.tsx       *)
(*             (l. 194-227): onFilterValueChange, onClear, onSubmit;       *)
(*   SpecDisplay the table body of CromwellDataProcGrid (l. 776-865) and   *)
(*             handleToggle (l. 603-611).                                  *)
(*                                                                         *)
(* Costs are exact integers (a JavaScript number is added without rounding *)
(* as long as the amounts are integers); a Date is its getTime() value.    *)
(* The fields that the functions only copy from the first record of a      *)
(* group (topic, creator, compute_category, cromwell_id, the dataproc      *)
(* fields) are left out, except ar_guid.                                   *)
(***************************************************************************)
EXTENDS Integers, Sequences, FiniteSets, TLC

VARIABLES
    fn,             \* Spec: the function called, "prepareTotalRow" or "prepareDetails"
    key,            \* Spec: its argument key
    data,           \* the input array; in Spec, the records forEach has visited so far
    aggData,        \* Spec: the local array aggData of the call
    pc,             \* position: Spec "scan" | "done" | "error"; SpecGrid "render" | "aggregated" | "combined" | "sorted" | "error"
    allAggData,     \* SpecGrid: aggData of CromwellDataProcGrid (l. 591)
    aggResource,    \* SpecGrid: aggResource (l. 592)
    combinedData,   \* SpecGrid: combinedData (l. 595)
    variant,        \* SpecLayout: the file whose ProjectGrid renders
    pidx,           \* SpecLayout: the index of the participant in summary.participants
    participant,    \* SpecLayout: the participant p the callback is called with
    tableRows,      \* SpecLayout: the table rows rendered for p, in order
    arg,            \* SpecFormat: the value safeValue is called with
    returned,       \* SpecFormat: the value the call returned
    cell,           \* SpecFormat: the table cell rendered for the returned value
    filterValues,   \* SpecFilter: the prop filterValues, the filters that are applied
    tempFilterValues, \* SpecFilter: the state tempFilterValues, the pending filters
    openRows,       \* SpecDisplay: the state openRows of CromwellDataProcGrid
    tbody,          \* SpecDisplay: the rows of the table body as rendered
    event           \* SpecFilter, SpecDisplay: the last handler called, with its arguments

\* the variables of the aggregation and those of the project grid
aggVars == <<fn, key, data, aggData, allAggData, aggResource, combinedData>>
layoutVars == <<variant, pidx, participant, tableRows>>
formatVars == <<arg, returned, cell>>
uiVars == <<filterValues, tempFilterValues, openRows, tbody, event>>

vars == <<fn, key, data, aggData, pc, allAggData, aggResource, combinedData,
          variant, pidx, participant, tableRows, arg, returned, cell,
          filterValues, tempFilterValues, openRows, tbody, event>>

----------------------------------------------------------------------------
(* Bounds and input domains *)

\* longest input array of one call in Spec
MaxLen == 3
\* longest input array of CromwellDataProcGrid in SpecGrid
MaxGridLen == 2

\* the JavaScript value undefined (a missing field)
Undefined == "undefined"

\* the four grouping keys CromwellDataProcGrid aggregates by (l. 580-589)
KEYS == {"ar-guid", "cromwell-sub-workflow-name", "wdl-task-name", "seq_group_id"}

\* values of a grouping label
KeyValues == {"a", "b"}
\* values of cost: a credit, zero, a charge
Costs == {-1, 0, 2}
\* values of sku.description; Undefined stands for a record without sku object
SkuValues == {"s1", "s2"}
\* values of <<usage_start_time, usage_end_time>>: two overlapping intervals
UsageTimes == {<<1, 3>>, <<2, 4>>}

\* a usage record: its four labels and the fields the aggregation reads
UsageRecord(labels, cost, sku, st, en) ==
    labels @@ [cost |-> cost, sku |-> sku,
               usage_start_time |-> st, usage_end_time |-> en]

\* the labels of a record that has at most the label k
OnlyLabel(k, v) == [l \in KEYS |-> IF l = k THEN v ELSE Undefined]

\* records given to one call of prepareTotalRow with key k: sku is not read
TotalRecords(k) ==
    { UsageRecord(OnlyLabel(k, v), c, "s1", t[1], t[2]) :
        v \in KeyValues \cup {Undefined}, c \in Costs, t \in UsageTimes }

\* values of cost in the arrays given to CromwellDataProcGrid
GridCosts == {-1, 2}

\* records given to CromwellDataProcGrid: every record has an ar-guid and a
\* sku, and may have each of the other labels
GridRecords ==
    { UsageRecord([l \in KEYS |-> IF l = "ar-guid" THEN g ELSE IF l \in ls THEN "a" ELSE Undefined],
                  c, s, 1, 3) :
        g \in KeyValues, ls \in SUBSET (KEYS \ {"ar-guid"}),
        c \in GridCosts, s \in SkuValues }

\* the arrays of at most n records of S
SeqsUpTo(S, n) == UNION { [1..m -> S] : m \in 0..n }

\* records given to one call of prepareDetails with key k: the times are not read
DetailRecords(k) ==
    { UsageRecord(OnlyLabel(k, v), c, s, 1, 3) :
        v \in KeyValues \cup {Undefined}, c \in Costs,
        s \in SkuValues \cup {Undefined} }

\* a participant without samples, the value of participant outside SpecLayout
NoParticipant == [samples |-> <<>>]

\* the JavaScript value undefined, as an argument or a result of safeValue
JSUndefined == [type |-> "undefined"]

\* no table cell rendered
NoCell == [em |-> FALSE, text |-> ""]

\* no filter: the object {}
NoFilters == [k \in {} |-> ""]

\* no handler called yet
NoEvent == [handler |-> "none"]

----------------------------------------------------------------------------
(* prepareTotalRow *)

Min2(a, b) == IF a <= b THEN a ELSE b
Max2(a, b) == IF a >= b THEN a ELSE b

\* Array.prototype.findIndex, given the result of the callback for each
\* element: the first index whose element passes, 0 for JavaScript's -1
\* (indices are 1-based here)
FindIndex(passes) ==
    IF \E j \in 1..Len(passes) : passes[j]
    THEN CHOOSE j \in 1..Len(passes) :
            passes[j] /\ \A m \in 1..(j-1) : ~passes[m]
    ELSE 0

\* Retained with the test of cost forgotten: credits are aggregated
RetainedKeyOnly(curr, k) == curr[k] # Undefined

\* Retained with cost > 0 for cost >= 0: free records are dropped
RetainedPositive(curr, k) == curr[k] # Undefined /\ curr.cost > 0

\* l. 499 and l. 552: the record is aggregated
Retained(curr, k) == curr[k] # Undefined /\ curr.cost >= 0

\* l. 502-514: the row created for the first record of a group
NewTotalRow(curr, k) ==
    [type |-> k,
     key |-> curr[k],
     ar_guid |-> curr["ar-guid"],
     cost |-> curr.cost,
     start_time |-> curr.usage_start_time,
     end_time |-> curr.usage_end_time,
     wdl_task_name |-> IF k = "wdl-task-name" THEN curr[k] ELSE Undefined,
     cromwell_sub |-> IF k = "cromwell-sub-workflow-name" THEN curr[k] ELSE Undefined,
     seq_group_id |-> IF k = "seq_group_id" THEN curr[k] ELSE Undefined]

\* UpdateTotalRow with = for +=: the last cost replaces the sum
UpdateTotalRowOverwrite(row, curr) ==
    [row EXCEPT !.cost = curr.cost,
                !.start_time = Min2(curr.usage_start_time, @),
                !.end_time = Max2(curr.usage_end_time, @)]

\* UpdateTotalRow without Math.min and Math.max: the times of the last record
\* replace those of the row
UpdateTotalRowLatest(row, curr) ==
    [row EXCEPT !.cost = @ + curr.cost,
                !.start_time = curr.usage_start_time,
                !.end_time = curr.usage_end_time]

\* l. 528-534: a further record of the group is added to its row
UpdateTotalRow(row, curr) ==
    [row EXCEPT !.cost = @ + curr.cost,
                !.start_time = Min2(curr.usage_start_time, @),
                !.end_time = Max2(curr.usage_end_time, @)]

\* TotalStep looking only at the last row of aggData instead of findIndex
TotalStepAdjacent(agg, curr, k) ==
    LET idx == IF agg # <<>> /\ agg[Len(agg)].key = curr[k] THEN Len(agg) ELSE 0
    IN  IF Retained(curr, k)
        THEN IF idx = 0
             THEN Append(agg, NewTotalRow(curr, k))
             ELSE [agg EXCEPT ![idx] = UpdateTotalRow(@, curr)]
        ELSE agg

\* TotalStep with unshift for push: a new row goes to the front
TotalStepUnshift(agg, curr, k) ==
    LET idx == FindIndex([j \in 1..Len(agg) |-> agg[j].key = curr[k]])
    IN  IF Retained(curr, k)
        THEN IF idx = 0
             THEN <<NewTotalRow(curr, k)>> \o agg
             ELSE [agg EXCEPT ![idx] = UpdateTotalRow(@, curr)]
        ELSE agg

\* l. 484-537: the body of the forEach callback of prepareTotalRow
TotalStep(agg, curr, k) ==
    LET idx == FindIndex([j \in 1..Len(agg) |-> agg[j].key = curr[k]])
    IN  IF Retained(curr, k)
        THEN IF idx = 0
             THEN Append(agg, NewTotalRow(curr, k))
             ELSE [agg EXCEPT ![idx] = UpdateTotalRow(@, curr)]
        ELSE agg

RECURSIVE TotalFrom(_, _, _)
TotalFrom(agg, rest, k) ==
    IF rest = <<>> THEN agg
    ELSE TotalFrom(TotalStep(agg, Head(rest), k), Tail(rest), k)

\* l. 480-540
prepareTotalRow(records, k) == TotalFrom(<<>>, records, k)

----------------------------------------------------------------------------
(* prepareDetails *)

\* l. 555-566
NewDetailRow(curr, k) ==
    [type |-> k,
     key |-> curr[k],
     ar_guid |-> curr["ar-guid"],
     cost |-> curr.cost,
     wdl_task_name |-> IF k = "wdl-task-name" THEN curr[k] ELSE Undefined,
     cromwell_sub |-> IF k = "cromwell-sub-workflow-name" THEN curr[k] ELSE Undefined,
     seq_group_id |-> IF k = "seq_group_id" THEN curr[k] ELSE Undefined,
     batch_resource |-> curr.sku]

\* l. 549-551 and l. 565: sku.description is read, and raises a TypeError when
\* the record has no sku, (a) by the findIndex callback as soon as a row has
\* the record's key (the && does not reach it for the other rows), (b) when
\* the row of a retained record is created
DetailsThrows(agg, curr, k) ==
    /\ curr.sku = Undefined
    /\ \/ \E j \in 1..Len(agg) : agg[j].key = curr[k]
       \/ Retained(curr, k)

\* DetailsStep with the comparison of batch_resource forgotten
DetailsStepKeyOnly(agg, curr, k) ==
    LET idx == FindIndex([j \in 1..Len(agg) |-> agg[j].key = curr[k]])
    IN  IF Retained(curr, k)
        THEN IF idx = 0
             THEN Append(agg, NewDetailRow(curr, k))
             ELSE [agg EXCEPT ![idx].cost = @ + curr.cost]
        ELSE agg

\* l. 545-571: the body of the forEach callback of prepareDetails, when it
\* raises nothing
DetailsStep(agg, curr, k) ==
    LET idx == FindIndex([j \in 1..Len(agg) |->
                            agg[j].key = curr[k] /\ agg[j].batch_resource = curr.sku])
    IN  IF Retained(curr, k)
        THEN IF idx = 0
             THEN Append(agg, NewDetailRow(curr, k))
             ELSE [agg EXCEPT ![idx].cost = @ + curr.cost]
        ELSE agg

RECURSIVE DetailsFrom(_, _, _)
DetailsFrom(agg, rest, k) ==
    IF rest = <<>> THEN agg
    ELSE DetailsFrom(DetailsStep(agg, Head(rest), k), Tail(rest), k)

\* l. 542-574, the rows returned when no record raises
prepareDetails(records, k) == DetailsFrom(<<>>, records, k)

\* l. 542-574, some record of the array raises a TypeError
prepareDetailsThrows(records, k) ==
    \E i \in 1..Len(records) :
        DetailsThrows(prepareDetails(SubSeq(records, 1, i-1), k), records[i], k)

----------------------------------------------------------------------------
(* Spec: one call, one record per step *)

Init ==
    /\ fn \in {"prepareTotalRow", "prepareDetails"}
    /\ key \in KEYS
    /\ data = <<>>
    /\ aggData = <<>>
    /\ pc = "scan"
    /\ allAggData = <<>>
    /\ aggResource = <<>>
    /\ combinedData = <<>>
    /\ variant = Undefined
    /\ pidx = 0
    /\ participant = NoParticipant
    /\ tableRows = <<>>
    /\ arg = JSUndefined
    /\ returned = JSUndefined
    /\ cell = NoCell
    /\ filterValues = NoFilters
    /\ tempFilterValues = NoFilters
    /\ openRows = <<>>
    /\ tbody = <<>>
    /\ event = NoEvent

\* one iteration of data.forEach in prepareTotalRow (l. 484-537)
ScanTotal ==
    /\ pc = "scan"
    /\ fn = "prepareTotalRow"
    /\ Len(data) < MaxLen
    /\ \E curr \in TotalRecords(key) :
        /\ data' = Append(data, curr)
        /\ aggData' = TotalStep(aggData, curr, key)
    /\ UNCHANGED <<fn, key, pc, allAggData, aggResource, combinedData>>
    /\ UNCHANGED layoutVars
    /\ UNCHANGED formatVars
    /\ UNCHANGED uiVars

\* one iteration of data.forEach in prepareDetails (l. 545-571)
ScanDetails ==
    /\ pc = "scan"
    /\ fn = "prepareDetails"
    /\ Len(data) < MaxLen
    /\ \E curr \in DetailRecords(key) :
        /\ data' = Append(data, curr)
        /\ IF DetailsThrows(aggData, curr, key)
           THEN aggData' = aggData /\ pc' = "error"
           ELSE aggData' = DetailsStep(aggData, curr, key) /\ pc' = pc
    /\ UNCHANGED <<fn, key, allAggData, aggResource, combinedData>>
    /\ UNCHANGED layoutVars
    /\ UNCHANGED formatVars
    /\ UNCHANGED uiVars

\* the array is exhausted: return aggData (l. 539, l. 573)
Return ==
    /\ pc = "scan"
    /\ pc' = "done"
    /\ UNCHANGED <<fn, key, data, aggData, allAggData, aggResource, combinedData>>
    /\ UNCHANGED layoutVars
    /\ UNCHANGED formatVars
    /\ UNCHANGED uiVars

Next == ScanTotal \/ ScanDetails \/ Return

Spec == Init /\ [][Next]_vars

----------------------------------------------------------------------------
(* SpecGrid: the body of CromwellDataProcGrid *)

\* the order of the spreads of l. 591 and of l. 592
TotalOrder == <<"ar-guid", "wdl-task-name", "cromwell-sub-workflow-name", "seq_group_id">>
DetailOrder == <<"ar-guid", "cromwell-sub-workflow-name", "wdl-task-name", "seq_group_id">>

\* DetailsOf with the comparison of type forgotten
DetailsOfKeyOnly(dataItem, resources) ==
    LET Matches(resourceItem) == resourceItem.key = dataItem.key
    IN  SelectSeq(resources, Matches)

\* DetailsOf with the comparison of key forgotten
DetailsOfTypeOnly(dataItem, resources) ==
    LET Matches(resourceItem) == resourceItem.type = dataItem.type
    IN  SelectSeq(resources, Matches)

\* l. 596-599: the detail rows attached to one aggregated row
DetailsOf(dataItem, resources) ==
    LET Matches(resourceItem) ==
            resourceItem.key = dataItem.key /\ resourceItem.type = dataItem.type
    IN  SelectSeq(resources, Matches)

\* l. 595-601
Combine(aggs, resources) ==
    [i \in 1..Len(aggs) |-> aggs[i] @@ [details |-> DetailsOf(aggs[i], resources)]]

\* the input array with, for each ar-guid, the total of its group written into
\* the first kept record: what the calls would leave if a row were the record
\* itself (rec = curr) instead of a new object
DataAfterCallsAliased(records) ==
    [i \in 1..Len(records) |->
        LET k == "ar-guid"
            Group == { j \in 1..Len(records) :
                        Retained(records[j], k) /\ records[j][k] = records[i][k] }
        IN  IF i \in Group /\ \A j \in Group : i <= j
            THEN [records[i] EXCEPT !.cost =
                    prepareTotalRow(records, k)[
                        CHOOSE p \in 1..Len(prepareTotalRow(records, k)) :
                            prepareTotalRow(records, k)[p].key = records[i][k]].cost]
            ELSE records[i]]

\* the input array after the calls of prepareTotalRow and prepareDetails: a
\* row is a new object holding copies of the record's values (l. 502-514,
\* l. 555-566), and the writes of l. 528-534 and l. 568 go to rows of aggData,
\* so that no record and no slot of the array is written
DataAfterCalls(records) == records

\* combinedData.sort without the sort
UnsortedByCost(rows) == rows

\* the place of a row in an array sorted by decreasing cost: behind the rows
\* that cost at least as much
RECURSIVE SortedByCost(_)
SortedByCost(rows) ==
    IF rows = <<>> THEN <<>>
    ELSE LET front == SortedByCost(SubSeq(rows, 1, Len(rows) - 1))
             last == rows[Len(rows)]
             n == Cardinality({ j \in 1..Len(front) : front[j].cost >= last.cost })
         IN  SubSeq(front, 1, n) \o <<last>> \o SubSeq(front, n + 1, Len(front))

\* _.orderBy(log?.details, ['cost'], ['desc']) (l. 847): a stable sort by
\* decreasing cost
orderByCostDesc(details) == SortedByCost(details)

\* openRows.includes(position)
Includes(open, position) == \E i \in 1..Len(open) : open[i] = position

\* l. 668-676: the text of the DURATION cell, times in milliseconds
DurationText(dataItem) ==
    LET duration == dataItem.end_time - dataItem.start_time
        seconds == (duration \div 1000) % 60
        minutes == (duration \div (1000 * 60)) % 60
        hours == (duration \div (1000 * 60 * 60)) % 24
    IN  ToString(hours) \o "h " \o ToString(minutes) \o "m " \o ToString(seconds) \o "s"

\* l. 788-865: the table body, one entry per row of combinedData in the
\* order of the array: the checkbox, which also decides whether the rows
\* below the main row are displayed, the cells this model follows, and the
\* cost breakdown rows
Body(combined, open) ==
    [ i \in 1..Len(combined) |->
        [ key |-> combined[i].key,
          type |-> combined[i].type,
          checked |-> Includes(open, combined[i].key),
          duration |-> DurationText(combined[i]),
          cost |-> combined[i].cost,
          breakdown |->
              [ j \in 1..Len(combined[i].details) |->
                  [ batch_resource |-> orderByCostDesc(combined[i].details)[j].batch_resource,
                    cost |-> orderByCostDesc(combined[i].details)[j].cost ] ] ] ]

InitGrid ==
    /\ fn = "CromwellDataProcGrid"
    /\ key = Undefined
    /\ data \in SeqsUpTo(GridRecords, MaxGridLen)
    /\ aggData = <<>>
    /\ pc = "render"
    /\ allAggData = <<>>
    /\ aggResource = <<>>
    /\ combinedData = <<>>
    /\ variant = Undefined
    /\ pidx = 0
    /\ participant = NoParticipant
    /\ tableRows = <<>>
    /\ arg = JSUndefined
    /\ returned = JSUndefined
    /\ cell = NoCell
    /\ filterValues = NoFilters
    /\ tempFilterValues = NoFilters
    /\ openRows = <<>>
    /\ tbody = <<>>
    /\ event = NoEvent

\* l. 580-592: the four calls of prepareTotalRow, the four calls of
\* prepareDetails, and the two concatenations
Aggregate ==
    /\ pc = "render"
    /\ IF \E k \in KEYS : prepareDetailsThrows(data, k)
       THEN /\ pc' = "error"
            /\ UNCHANGED <<allAggData, aggResource>>
       ELSE /\ pc' = "aggregated"
            /\ allAggData' = prepareTotalRow(data, TotalOrder[1]) \o prepareTotalRow(data, TotalOrder[2])
                              \o prepareTotalRow(data, TotalOrder[3]) \o prepareTotalRow(data, TotalOrder[4])
            /\ aggResource' = prepareDetails(data, DetailOrder[1]) \o prepareDetails(data, DetailOrder[2])
                              \o prepareDetails(data, DetailOrder[3]) \o prepareDetails(data, DetailOrder[4])
    /\ data' = DataAfterCalls(data)
    /\ UNCHANGED <<fn, key, aggData, combinedData>>
    /\ UNCHANGED layoutVars
    /\ UNCHANGED formatVars
    /\ UNCHANGED uiVars

\* l. 595-601
CombineRows ==
    /\ pc = "aggregated"
    /\ combinedData' = Combine(allAggData, aggResource)
    /\ pc' = "combined"
    /\ UNCHANGED <<fn, key, data, aggData, allAggData, aggResource>>
    /\ UNCHANGED layoutVars
    /\ UNCHANGED formatVars
    /\ UNCHANGED uiVars

\* l. 776-865: combinedData.sort with the comparator on cost, in place (the
\* sort is stable), and the rows of the table body mapped from the result
SortRows ==
    /\ pc = "combined"
    /\ combinedData' = SortedByCost(combinedData)
    /\ tbody' = Body(combinedData', openRows)
    /\ pc' = "sorted"
    /\ UNCHANGED <<fn, key, data, aggData, allAggData, aggResource>>
    /\ UNCHANGED layoutVars
    /\ UNCHANGED formatVars
    /\ UNCHANGED <<filterValues, tempFilterValues, openRows, event>>

NextGrid == Aggregate \/ CombineRows \/ SortRows

SpecGrid == InitGrid /\ [][NextGrid]_vars

----------------------------------------------------------------------------
(* SpecDisplay: the table body of CromwellDataProcGrid and its toggles *)

\* longest input array of CromwellDataProcGrid in SpecDisplay
MaxDisplayLen == 3

\* <<usage_start_time, usage_end_time>> in milliseconds of the records of an
\* ar-guid: 1 h 2 min 3 s from 0 for "a", and from 1 s to 25 h 1 min 1 s for
\* every other
DisplayTimes(g) == IF g = "a" THEN <<0, 3723000>> ELSE <<1000, 90061000>>

\* records given to CromwellDataProcGrid in SpecDisplay: those of ar-guid "a"
\* belong to the wdl task "a", those of ar-guid "b" to none
DisplayRecords ==
    { UsageRecord([l \in KEYS |-> IF l = "ar-guid" THEN g
                                  ELSE IF l = "wdl-task-name" /\ g = "a" THEN "a"
                                  ELSE Undefined],
                  c, s, DisplayTimes(g)[1], DisplayTimes(g)[2]) :
        g \in KeyValues, c \in {1, 5}, s \in SkuValues }

InitDisplay ==
    /\ fn = "CromwellDataProcGrid"
    /\ key = Undefined
    /\ data \in SeqsUpTo(DisplayRecords, MaxDisplayLen)
    /\ aggData = <<>>
    /\ pc = "render"
    /\ allAggData = <<>>
    /\ aggResource = <<>>
    /\ combinedData = <<>>
    /\ variant = Undefined
    /\ pidx = 0
    /\ participant = NoParticipant
    /\ tableRows = <<>>
    /\ arg = JSUndefined
    /\ returned = JSUndefined
    /\ cell = NoCell
    /\ filterValues = NoFilters
    /\ tempFilterValues = NoFilters
    /\ openRows = <<>>
    /\ tbody = <<>>
    /\ event = NoEvent

\* l. 605-611: the array handleToggle gives to setOpenRows
handleToggleAppend(open, position) == Append(open, position)

handleToggle(open, position) ==
    IF ~Includes(open, position) THEN Append(open, position)
    ELSE LET Other(i) == i # position IN SelectSeq(open, Other)

\* l. 799-801: the checkbox of the row at place i of the table is changed:
\* handleToggle(log.key), and the component renders again with the new
\* openRows
HandleToggle ==
    /\ fn = "CromwellDataProcGrid"
    /\ pc = "sorted"
    /\ \E i \in 1..Len(combinedData) :
        /\ openRows' = handleToggle(openRows, combinedData[i].key)
        /\ event' = [handler |-> "handleToggle", row |-> i, position |-> combinedData[i].key]
    /\ tbody' = Body(combinedData, openRows')
    /\ UNCHANGED <<filterValues, tempFilterValues, pc>>
    /\ UNCHANGED aggVars
    /\ UNCHANGED layoutVars
    /\ UNCHANGED formatVars

NextDisplay == Aggregate \/ CombineRows \/ SortRows \/ HandleToggle

SpecDisplay == InitDisplay /\ [][NextDisplay]_vars

----------------------------------------------------------------------------
(* SpecLayout: the table body of ProjectGrid *)

\* the two files that hold a ProjectGrid; they differ in the list of assays a
\* sequencing group is rendered with (AssayRowCount)
VARIANTS == {"ProjectGrid.tsx", "LoadingDuck.tsx"}

\* bounds of the participant tree and of the participant list
MaxSamples == 2
MaxGroups == 2
MaxParticipants == 2

\* the lengths of the assay lists that are present
AssayCounts == {0, 3}

\* a list of assays is its length, or is missing (undefined or null, which
\* ??, ?. and !! treat alike); the assays themselves are only read for the
\* text of their cells
NoAssays == [defined |-> FALSE, length |-> 0]
AssayLists == {NoAssays} \cup { [defined |-> TRUE, length |-> n] : n \in AssayCounts }

SequencingGroups == [assays : AssayLists]

\* the list sequencing_groups of a sample: present, or missing
NoGroups == [defined |-> FALSE, items |-> <<>>]
GroupLists ==
    {NoGroups} \cup { [defined |-> TRUE, items |-> g] : g \in SeqsUpTo(SequencingGroups, MaxGroups) }

Samples == [sequencing_groups : GroupLists]

Participants == [samples : SeqsUpTo(Samples, MaxSamples)]

\* the object {} that stands for the sequencing groups of a sample without any
EmptyGroup == [assays |-> NoAssays]

\* l. 282-283: backgroundColor
BackgroundColorPlain(i) == "var(--color-bg)"

BackgroundColor(i) ==
    IF i % 2 = 0 THEN "var(--color-bg)" ELSE "var(--color-bg-disabled)"

\* (a_.assays ?? []).length
AssaysLength(sg) == IF sg.assays.defined THEN sg.assays.length ELSE 0

\* (s.sequencing_groups ?? []).map(a_ => (a_.assays ?? []).length).reduce(+, 0)
RECURSIVE SumAssays(_)
SumAssays(groups) ==
    IF groups = <<>> THEN 0
    ELSE AssaysLength(Head(groups)) + SumAssays(Tail(groups))

\* l. 298-300: lengthOfSamples
lengthOfSamplesFirst(s) ==
    IF s.sequencing_groups.items = <<>> THEN 0
    ELSE AssaysLength(Head(s.sequencing_groups.items))

lengthOfSamples(s) == SumAssays(s.sequencing_groups.items)

\* l. 285-296: lengthOfParticipant
RECURSIVE LengthFromNoMax(_)
LengthFromNoMax(samples) ==
    IF samples = <<>> THEN 0
    ELSE lengthOfSamples(Head(samples)) + LengthFromNoMax(Tail(samples))

RECURSIVE LengthFrom(_)
LengthFrom(samples) ==
    IF samples = <<>> THEN 0
    ELSE Max2(1, lengthOfSamples(Head(samples))) + LengthFrom(Tail(samples))

lengthOfParticipant(p) == LengthFrom(p.samples)

\* l. 302-304 and l. 408-412: the attribute rowSpan of a cell; 0 stands for
\* undefined, the attribute left out, which a browser takes as a span of 1
RowSpan(n) == IF n > 0 THEN n ELSE 0

\* l. 306-310: sgs
sgs(s) ==
    IF s.sequencing_groups.items = <<>> THEN <<EmptyGroup>>
    ELSE s.sequencing_groups.items

\* the length of the list of assays that a sequencing group is mapped over:
\* ProjectGrid.tsx l. 312 takes sg.assays whenever it is present, the empty
\* list too; LoadingDuck.tsx l. 411 takes it when its length is above 0; both
\* take a list of one placeholder otherwise
AssayRowCount(v, sg) ==
    IF v = "ProjectGrid.tsx"
    THEN IF sg.assays.defined THEN sg.assays.length ELSE 1
    ELSE IF sg.assays.defined /\ sg.assays.length > 0 THEN sg.assays.length ELSE 1

\* l. 408-412: the rowSpan of the cells of a sequencing group
sgRowSpanNever(sg) == 0

sgRowSpan(sg) == RowSpan(AssaysLength(sg))

\* a table cell: the columns it belongs to, its rowSpan and its colour.  The
\* cells of one kind (one per key of the summary, and the family cell with the
\* participant's) are written under one condition with one rowSpan and one
\* colour, so one cell stands for each kind.
Cell(group, span, colour) ==
    [group |-> group, rowSpan |-> span, backgroundColor |-> colour]

\* l. 313-446: the row of assay assayidx of sequencing group sgidx of sample
\* sidx of participant i (indices from 0, as in the code)
Row(i, p, sidx, s, sgidx, sg, assayidx) ==
    LET backgroundColor == BackgroundColor(i)
        participantRowSpan == RowSpan(lengthOfParticipant(p))
        samplesRowSpan == RowSpan(lengthOfSamples(s))
        isFirstOfGroup == sidx = 0 /\ sgidx = 0 /\ assayidx = 0
    IN  [ sidx |-> sidx, sgidx |-> sgidx, assayidx |-> assayidx,
          cells |->
              (IF isFirstOfGroup
               THEN <<Cell("participant", participantRowSpan, backgroundColor)>>
               ELSE <<>>)
              \o (IF sgidx = 0 /\ assayidx = 0
                  THEN <<Cell("sample", samplesRowSpan, backgroundColor)>>
                  ELSE <<>>)
              \o (IF assayidx = 0
                  THEN <<Cell("sequencing_group", sgRowSpan(sg), backgroundColor)>>
                  ELSE <<>>)
              \o <<Cell("assay", 0, backgroundColor)>> ]

\* the inner map of l. 312: the rows of one sequencing group
RowsOfGroup(v, i, p, sidx, s, sgidx, sg) ==
    [ a \in 1..AssayRowCount(v, sg) |-> Row(i, p, sidx, s, sgidx, sg, a - 1) ]

\* sgs.map of l. 311: the rows of the sequencing groups from position g on
RECURSIVE RowsOfGroupsFrom(_, _, _, _, _, _)
RowsOfGroupsFrom(v, i, p, sidx, s, g) ==
    IF g > Len(sgs(s)) THEN <<>>
    ELSE RowsOfGroup(v, i, p, sidx, s, g - 1, sgs(s)[g])
         \o RowsOfGroupsFrom(v, i, p, sidx, s, g + 1)

\* p.samples.map of l. 281: the rows of the samples from position n on
RECURSIVE RowsOfSamplesFrom(_, _, _, _)
RowsOfSamplesFrom(v, i, p, n) ==
    IF n > Len(p.samples) THEN <<>>
    ELSE RowsOfGroupsFrom(v, i, p, n - 1, p.samples[n], 1)
         \o RowsOfSamplesFrom(v, i, p, n + 1)

\* the callback of summary.participants.map (l. 280): the rows of participant
\* p at index i, flattened in the order React renders them
RowsOfParticipant(v, i, p) == RowsOfSamplesFrom(v, i, p, 1)

InitLayout ==
    /\ fn = "ProjectGrid"
    /\ key = Undefined
    /\ data = <<>>
    /\ aggData = <<>>
    /\ allAggData = <<>>
    /\ aggResource = <<>>
    /\ combinedData = <<>>
    /\ pc = "body"
    /\ variant \in VARIANTS
    /\ pidx \in 0..(MaxParticipants - 1)
    /\ participant \in Participants
    /\ tableRows = <<>>
    /\ arg = JSUndefined
    /\ returned = JSUndefined
    /\ cell = NoCell
    /\ filterValues = NoFilters
    /\ tempFilterValues = NoFilters
    /\ openRows = <<>>
    /\ tbody = <<>>
    /\ event = NoEvent

\* the callback of l. 280 runs for the participant at index pidx
RenderParticipant ==
    /\ fn = "ProjectGrid"
    /\ pc = "body"
    /\ tableRows' = RowsOfParticipant(variant, pidx, participant)
    /\ pc' = "rendered"
    /\ UNCHANGED aggVars
    /\ UNCHANGED <<variant, pidx, participant>>
    /\ UNCHANGED formatVars
    /\ UNCHANGED uiVars

NextLayout == RenderParticipant

SpecLayout == InitLayout /\ [][NextLayout]_vars

----------------------------------------------------------------------------
(* SpecFormat: the value formatter of SeqInfo_ (src/unnamed/part_000) *)

\* the longest array passed to safeValue
MaxItems == 2

\* JavaScript values, tagged with their type.  An object is taken by its two
\* fields that safeValue reads: location (a string, Undefined when the field
\* is absent) and size (<<n>>, or <<>> when the field is absent).
JSNull == [type |-> "null"]
JSBoolean(b) == [type |-> "boolean", bool |-> b]
JSNumber(n) == [type |-> "number", num |-> n]
JSString(s) == [type |-> "string", str |-> s]
JSObject(location, size) == [type |-> "object", location |-> location, size |-> size]
JSArray(items) == [type |-> "array", items |-> items]

\* byte counts: zero, below and at the first two unit changes, with none, one
\* and two decimals when divided
Sizes == {0, 1, 1000, 1024, 1536, 2048, 2058, 1048576}
\* a byte count is written in base k = 1024 (l. 29), lowest digit first and
\* without zeros at the top, so that counts beyond 32 bits are exact; the
\* number 0 has no digit
RECURSIVE Digits(_)
Digits(n) == IF n = 0 THEN <<>> ELSE <<n % 1024>> \o Digits(n \div 1024)

\* the most digits of a byte count passed to formatBytes
MaxDigits == 10

\* the byte counts formatBytes is called with, each a number that a double
\* holds exactly: those of Sizes; one, a half and all but one unit of each
\* power of k; one and a half of each power; the counts of up to four digits
\* k - 1; and (k ** 5 - 1) * k ** m, the greatest counts below a power of k
ByteCounts ==
    { Digits(n) : n \in Sizes }
    \cup { [j \in 1..n |-> IF j = n THEN top ELSE 0] : n \in 1..MaxDigits, top \in {1, 512, 1023} }
    \cup { [j \in 1..n |-> IF j = n THEN 1 ELSE IF j = n - 1 THEN 512 ELSE 0] : n \in 2..MaxDigits }
    \cup { [j \in 1..n |-> 1023] : n \in 1..4 }
    \cup { [j \in 1..n |-> IF j > n - 5 THEN 1023 ELSE 0] : n \in 5..MaxDigits }

Locations == {Undefined, "", "gs://x", "gs://y/z.bam"}

FileObjects == { JSObject(l, s) : l \in Locations, s \in {<<>>} \cup { <<n>> : n \in Sizes } }

ScalarValues ==
    {JSNull, JSUndefined, JSBoolean(FALSE), JSBoolean(TRUE)}
    \cup { JSNumber(n) : n \in {-1, 0, 42} }
    \cup { JSString(s) : s \in {"", "abc"} }

\* the elements of the arrays
ItemValues ==
    {JSNull, JSNumber(0), JSNumber(42), JSString("abc"),
     JSObject("gs://x", <<2048>>), JSObject("gs://x", <<0>>)}

Values ==
    ScalarValues \cup FileObjects \cup { JSArray(a) : a \in SeqsUpTo(ItemValues, MaxItems) }

\* !value
Falsy(v) ==
    \/ v.type \in {"null", "undefined"}
    \/ v.type = "boolean" /\ ~v.bool
    \/ v.type = "number" /\ v.num = 0
    \/ v.type = "string" /\ v.str = ""

\* l. 31: sizes
sizes == <<"Bytes", "KB", "MB", "GB", "TB", "PB", "EB", "ZB", "YB">>

\* l. 33: Math.floor(Math.log(bytes) / Math.log(k)) for bytes >= 1.  The
\* quotient of the two logarithms is computed in double precision: it is
\* below the number of digits for the byte counts of ByteCounts and Sizes,
\* except for those whose five highest digits are all k - 1 (from
\* 1024 ** 5 - 1 on), for which the logarithm rounds to that of the next
\* power of k and the floor is the number of digits.
UnitIndex(bytes) ==
    IF Len(bytes) >= 5 /\ \A j \in (Len(bytes) - 4)..Len(bytes) : bytes[j] = 1023
    THEN Len(bytes)
    ELSE Len(bytes) - 1

\* 100 * bytes + carry, in digits
RECURSIVE Times100(_, _)
Times100(ds, carry) ==
    IF ds = <<>> THEN (IF carry = 0 THEN <<>> ELSE <<carry>>)
    ELSE <<(100 * Head(ds) + carry) % 1024>>
         \o Times100(Tail(ds), (100 * Head(ds) + carry) \div 1024)

\* ds + amount * k ** (pos - 1), in digits
RECURSIVE AddAt(_, _, _)
AddAt(ds, pos, amount) ==
    IF amount = 0 THEN ds
    ELSE IF ds = <<>>
    THEN (IF pos = 1 THEN <<amount>> ELSE <<0>> \o AddAt(<<>>, pos - 1, amount))
    ELSE IF pos = 1
    THEN <<(Head(ds) + amount) % 1024>>
         \o AddAt(Tail(ds), 1, (Head(ds) + amount) \div 1024)
    ELSE <<Head(ds)>> \o AddAt(Tail(ds), pos - 1, amount)

\* the number that digits stand for
RECURSIVE ValueOf(_)
ValueOf(ds) == IF ds = <<>> THEN 0 ELSE Head(ds) + 1024 * ValueOf(Tail(ds))

\* (bytes / k ** i).toFixed(2) in hundredths: the division by a power of two
\* is exact, and toFixed rounds to the nearest hundredth, upwards at a tie:
\* the floor of (100 * bytes + k ** i / 2) / k ** i
Hundredths(bytes, i) ==
    LET t == IF i = 0 THEN Times100(bytes, 0) ELSE AddAt(Times100(bytes, 0), i, 512)
    IN  ValueOf(SubSeq(t, i + 1, Len(t)))

\* parseFloat of the text of toFixed(2), written back as text by the
\* template: the zeros at the end of the decimals are dropped
FixedText(h) ==
    LET whole == ToString(h \div 100)
    IN  IF h % 100 = 0 THEN whole
        ELSE IF h % 10 = 0 THEN whole \o "." \o ToString((h % 100) \div 10)
        ELSE whole \o "." \o ToString((h % 100) \div 10) \o ToString(h % 10)

\* l. 26-36: formatBytes(bytes), decimals left at 2; sizes[i] is undefined
\* from i = 9 on and the template writes it as "undefined"
formatBytes(bytes) ==
    IF bytes = <<>> THEN "0 Bytes"
    ELSE LET i == UnitIndex(bytes)
         IN  FixedText(Hundredths(bytes, i)) \o " "
             \o (IF i < Len(sizes) THEN sizes[i + 1] ELSE Undefined)

\* value.toString() of an integer
NumberText(n) == IF n < 0 THEN "-" \o ToString(0 - n) ELSE ToString(n)

\* JSON.stringify of the values that reach l. 92: true, and objects, whose
\* absent fields are skipped
JSONStringify(v) ==
    IF v.type = "boolean" THEN "true"
    ELSE LET loc == IF v.location = Undefined THEN <<>>
                    ELSE <<"\"location\":\"" \o v.location \o "\"">>
             siz == IF v.size = <<>> THEN <<>>
                    ELSE <<"\"size\":" \o NumberText(v.size[1])>>
             fields == loc \o siz
         IN  "{" \o (IF fields = <<>> THEN ""
                     ELSE IF Len(fields) = 1 THEN fields[1]
                     ELSE fields[1] \o "," \o fields[2]) \o "}"

\* the text Array.prototype.join gives an element: nothing for null and
\* undefined, String(element) otherwise
ItemText(v) ==
    IF v.type \in {"null", "undefined"} THEN ""
    ELSE IF v.type = "boolean" THEN (IF v.bool THEN "true" ELSE "false")
    ELSE IF v.type = "number" THEN NumberText(v.num)
    ELSE v.str

\* .join(', ')
RECURSIVE Join(_)
Join(items) ==
    IF items = <<>> THEN ""
    ELSE IF Len(items) = 1 THEN ItemText(items[1])
    ELSE ItemText(items[1]) \o ", " \o Join(Tail(items))

\* l. 87: !!value.location && !!value.size
IsFile(v) ==
    /\ v.location \notin {Undefined, ""}
    /\ v.size # <<>> /\ v.size[1] # 0

\* l. 76-93: safeValue
RECURSIVE safeValue(_)
safeValue(value) ==
    IF Falsy(value) THEN value
    ELSE IF value.type = "array"
    THEN JSString(Join([j \in 1..Len(value.items) |-> safeValue(value.items[j])]))
    ELSE IF value.type = "number" THEN JSString(NumberText(value.num))
    ELSE IF value.type = "string" THEN value
    ELSE IF value.type = "object" /\ IsFile(value)
    THEN JSString(value.location \o " (" \o formatBytes(Digits(value.size[1])) \o ")")
    ELSE JSString(JSONStringify(value))

\* the children of the cell: stringifiedValue ?? <em>no-value</em> (l. 156,
\* l. 168).  ?? takes the placeholder for null and undefined only; React
\* writes a string or a number as text and writes nothing for a boolean.
RowCell(r) ==
    IF r.type \in {"null", "undefined"} THEN [em |-> TRUE, text |-> "no-value"]
    ELSE IF r.type = "boolean" THEN [em |-> FALSE, text |-> ""]
    ELSE IF r.type = "number" THEN [em |-> FALSE, text |-> NumberText(r.num)]
    ELSE [em |-> FALSE, text |-> r.str]

\* external-id maps {code: id}, as the list of their entries in the order of
\* Object.entries; the codes of a map differ
ExternalIdMaps ==
    { ids \in UNION { [1..n -> {"", "a", "b"} \X {"X1", "X2"}] : n \in 0..2 } :
        \A i, j \in 1..Len(ids) : ids[i][1] = ids[j][1] => i = j }

\* shared/utilities/sanitiseValue, called with a string: the string itself
sanitiseValue(v) == v

\* LoadingDuck.tsx l. 141-145: formatExternalIds
formatExternalIds(ids) ==
    Join([ j \in 1..Len(ids) |->
             JSString(IF Len(ids[j][1]) = 0 THEN sanitiseValue(ids[j][2])
                      ELSE ids[j][1] \o ": " \o ids[j][2]) ])

\* part_000 l. 107-109: the text of the External Ids cell
externalIdsText(ids) ==
    Join([ j \in 1..Len(ids) |-> JSString(ids[j][2] \o " (" \o ids[j][1] \o ")") ])

InitFormat ==
    /\ fn \in {"safeValue", "formatBytes", "externalIds", "formatExternalIds"}
    /\ key = Undefined
    /\ data = <<>>
    /\ aggData = <<>>
    /\ allAggData = <<>>
    /\ aggResource = <<>>
    /\ combinedData = <<>>
    /\ variant = Undefined
    /\ pidx = 0
    /\ participant = NoParticipant
    /\ tableRows = <<>>
    /\ pc = "call"
    /\ arg \in (IF fn = "safeValue" THEN Values
                ELSE IF fn = "formatBytes" THEN ByteCounts
                ELSE ExternalIdMaps)
    /\ returned = JSUndefined
    /\ cell = NoCell
    /\ filterValues = NoFilters
    /\ tempFilterValues = NoFilters
    /\ openRows = <<>>
    /\ tbody = <<>>
    /\ event = NoEvent

\* one call of safeValue (l. 162: safeValue(value) for a field of the data)
CallSafeValue ==
    /\ fn = "safeValue"
    /\ pc = "call"
    /\ returned' = safeValue(arg)
    /\ pc' = "returned"
    /\ UNCHANGED aggVars
    /\ UNCHANGED layoutVars
    /\ UNCHANGED <<arg, cell>>
    /\ UNCHANGED uiVars

\* the row of the field is rendered with the value returned (l. 163-170)
RenderRow ==
    /\ fn = "safeValue"
    /\ pc = "returned"
    /\ cell' = RowCell(returned)
    /\ pc' = "rendered"
    /\ UNCHANGED aggVars
    /\ UNCHANGED layoutVars
    /\ UNCHANGED <<arg, returned>>
    /\ UNCHANGED uiVars

\* one call of formatBytes (l. 44: formatBytes(item.size))
CallFormatBytes ==
    /\ fn = "formatBytes"
    /\ pc = "call"
    /\ returned' = JSString(formatBytes(arg))
    /\ pc' = "returned"
    /\ UNCHANGED aggVars
    /\ UNCHANGED layoutVars
    /\ UNCHANGED <<arg, cell>>
    /\ UNCHANGED uiVars

\* the External Ids row of renderSeqInfo (l. 99-114): no row for a map
\* without entries
RenderExternalIds ==
    /\ fn = "externalIds"
    /\ pc = "call"
    /\ returned' = IF arg = <<>> THEN JSUndefined ELSE JSString(externalIdsText(arg))
    /\ pc' = "returned"
    /\ UNCHANGED aggVars
    /\ UNCHANGED layoutVars
    /\ UNCHANGED <<arg, cell>>
    /\ UNCHANGED uiVars

\* one call of formatExternalIds (LoadingDuck.tsx l. 459, l. 487)
CallFormatExternalIds ==
    /\ fn = "formatExternalIds"
    /\ pc = "call"
    /\ returned' = JSString(formatExternalIds(arg))
    /\ pc' = "returned"
    /\ UNCHANGED aggVars
    /\ UNCHANGED layoutVars
    /\ UNCHANGED <<arg, cell>>
    /\ UNCHANGED uiVars

NextFormat ==
    \/ CallSafeValue \/ RenderRow \/ CallFormatBytes
    \/ RenderExternalIds \/ CallFormatExternalIds

SpecFormat == InitFormat /\ [][NextFormat]_vars

----------------------------------------------------------------------------
(* SpecFilter: the column filters of ProjectGrid (LoadingDuck.tsx) *)

\* the columns of the grid that carry a filter form (l. 321-350): category,
\* field name and title of the header
Columns ==
    { [category |-> "p", name |-> "a", title |-> "A"],
      [category |-> "p", name |-> "b", title |-> "B"],
      [category |-> "s", name |-> "a", title |-> "A"] }

\* the texts of a filter input; the empty text is the input emptied
InputValues == {"", "x", "y"}

\* `${category}.${name}`
FilterKey(category, name) == category \o "." \o name

\* the entry of a filter map for a column and a value
FilterEntry(col, value) ==
    [value |-> value, category |-> col.category, title |-> col.title, field |-> col.name]

\* the filter maps: some of the columns, each with a non-empty value
FilterMaps ==
    UNION { [ { FilterKey(c.category, c.name) : c \in cols } -> InputValues \ {""} ]
              : cols \in SUBSET Columns }

\* a filter map of values as the map of its entries
EntriesOf(m) ==
    [ k \in DOMAIN m |->
        FilterEntry(CHOOSE c \in Columns : FilterKey(c.category, c.name) = k, m[k]) ]

\* Object.keys(map).filter((key) => k !== key).reduce(..., {}): the map
\* without the entry k
Without(map, k) == [ j \in DOMAIN map \ {k} |-> map[j] ]

\* the filters that are applied once the parent has taken the filters
\* published through the prop updateFilters
updateFilters(published) == published

\* l. 202-215: the object given to setTempFilterValues
changedFiltersKeepEmpty(temp, col, value) ==
    Without(temp, FilterKey(col.category, col.name))
        @@ [ k \in {FilterKey(col.category, col.name)} |-> FilterEntry(col, value) ]

changedFilters(temp, col, value) ==
    Without(temp, FilterKey(col.category, col.name))
        @@ (IF value # ""
            THEN [ k \in {FilterKey(col.category, col.name)} |-> FilterEntry(col, value) ]
            ELSE NoFilters)

\* l. 217-223: the object onClear gives to updateFilters
clearedFilters(temp, col) == Without(temp, FilterKey(col.category, col.name))

\* the call of a handler: its column, the text typed, and the object given to
\* updateFilters when it was called
HandlerCall(handler, col, value, called, published) ==
    [handler |-> handler, key |-> FilterKey(col.category, col.name), value |-> value,
     called |-> called, published |-> published]

\* ProjectGrid is mounted with the applied filters; tempFilterValues starts
\* as a copy of them (l. 194-200)
InitFilter ==
    /\ fn = "ProjectGrid"
    /\ key = Undefined
    /\ data = <<>>
    /\ aggData = <<>>
    /\ allAggData = <<>>
    /\ aggResource = <<>>
    /\ combinedData = <<>>
    /\ variant = "LoadingDuck.tsx"
    /\ pidx = 0
    /\ participant = NoParticipant
    /\ tableRows = <<>>
    /\ arg = JSUndefined
    /\ returned = JSUndefined
    /\ cell = NoCell
    /\ pc = "filters"
    /\ filterValues \in { EntriesOf(m) : m \in FilterMaps }
    /\ tempFilterValues = filterValues
    /\ openRows = <<>>
    /\ tbody = <<>>
    /\ event = NoEvent

\* l. 202-215: a change of the input of a column
onFilterValueChange ==
    /\ pc = "filters"
    /\ \E col \in Columns, value \in InputValues :
        /\ tempFilterValues' = changedFilters(tempFilterValues, col, value)
        /\ event' = HandlerCall("onFilterValueChange", col, value, FALSE, NoFilters)
    /\ UNCHANGED <<filterValues, openRows, tbody, pc>>
    /\ UNCHANGED aggVars
    /\ UNCHANGED layoutVars
    /\ UNCHANGED formatVars

\* l. 217-223: a click on the clear button of a column, which is rendered
\* when the column has an applied filter (l. 341)
onClear ==
    /\ pc = "filters"
    /\ \E col \in Columns :
        /\ FilterKey(col.category, col.name) \in DOMAIN filterValues
        /\ filterValues' = updateFilters(clearedFilters(tempFilterValues, col))
        /\ event' = HandlerCall("onClear", col, "", TRUE, clearedFilters(tempFilterValues, col))
    /\ UNCHANGED <<tempFilterValues, openRows, tbody, pc>>
    /\ UNCHANGED aggVars
    /\ UNCHANGED layoutVars
    /\ UNCHANGED formatVars

\* l. 225-227: the form of a column is submitted
onSubmit ==
    /\ pc = "filters"
    /\ \E col \in Columns :
        /\ filterValues' = updateFilters(tempFilterValues)
        /\ event' = HandlerCall("onSubmit", col, "", TRUE, tempFilterValues)
    /\ UNCHANGED <<tempFilterValues, openRows, tbody, pc>>
    /\ UNCHANGED aggVars
    /\ UNCHANGED layoutVars
    /\ UNCHANGED formatVars

NextFilter == onFilterValueChange \/ onClear \/ onSubmit

SpecFilter == InitFilter /\ [][NextFilter]_vars

----------------------------------------------------------------------------
(* Properties *)

\* a record the aggregation has to keep: its grouping key is defined and it
\* is no credit
Kept(r, k) == r[k] # Undefined /\ r.cost >= 0

\* the indices of the kept records of an array
KeptIdx(records, k) == { i \in 1..Len(records) : Kept(records[i], k) }

\* the sum of the field cost over an array of rows or records
RECURSIVE SumCost(_)
SumCost(rows) == IF rows = <<>> THEN 0 ELSE Head(rows).cost + SumCost(Tail(rows))

\* the sum of cost over the records of an array whose index is in I
RECURSIVE SumCostAt(_, _)
SumCostAt(records, I) ==
    IF I = {} THEN 0
    ELSE LET i == CHOOSE x \in I : TRUE
         IN  records[i].cost + SumCostAt(records, I \ {i})

SetMin(S) == CHOOSE x \in S : \A y \in S : x <= y
SetMax(S) == CHOOSE x \in S : \A y \in S : x >= y

TotalDone == fn = "prepareTotalRow" /\ pc = "done"
DetailsDone == fn = "prepareDetails" /\ pc = "done"

\* C1: the costs of the rows returned by prepareTotalRow(records, k) add up to
\* the sum of the costs of the records with cost >= 0 and field k defined
C1_TotalCostIsSumOfKept ==
    TotalDone => SumCost(aggData) = SumCostAt(data, KeptIdx(data, key))

\* a call that dropped a record and added two records into one row
C1_Witness ==
    /\ TotalDone
    /\ Len(data) = 3
    /\ Len(aggData) = 1
    /\ aggData[1].cost = 4
    /\ \E i \in 1..3 : data[i].cost < 0

\* a step of the loop of either function that visits a record with undefined
\* grouping key or negative cost
ScansDropped ==
    /\ pc = "scan"
    /\ Len(data') = Len(data) + 1
    /\ ~Kept(data'[Len(data')], key)

\* C2: in prepareTotalRow and in prepareDetails, scanning a record whose
\* grouping key is undefined or whose cost is negative creates no row and
\* changes no field of an existing row
C2_DroppedRecordChangesNothing == [][ScansDropped => aggData' = aggData]_vars

\* prepareDetails has just dropped a credit whose key and sku are those of an
\* existing row
C2_Witness ==
    /\ fn = "prepareDetails"
    /\ pc = "scan"
    /\ Len(data) = 2
    /\ data[2].cost < 0
    /\ Len(aggData) = 1
    /\ aggData[1].key = data[2][key]
    /\ aggData[1].batch_resource = data[2].sku
    /\ aggData[1].cost = data[1].cost

\* C3: prepareTotalRow(records, k) returns exactly one row for each distinct
\* value of field k among the kept records: no two rows share a key and no
\* kept key value is missing
C3_OneRowPerKey ==
    TotalDone =>
        /\ \A p, q \in 1..Len(aggData) : p # q => aggData[p].key # aggData[q].key
        /\ { aggData[p].key : p \in 1..Len(aggData) }
            = { data[i][key] : i \in KeptIdx(data, key) }

\* two keys, one of them seen again after the other, and a dropped record
C3_Witness ==
    /\ TotalDone
    /\ Len(data) = 3
    /\ Len(aggData) = 2
    /\ data[1][key] = data[3][key]
    /\ data[2][key] # data[1][key]
    /\ KeptIdx(data, key) = {1, 2, 3}

\* C4: in every row returned by prepareTotalRow, start_time is the least
\* usage_start_time and end_time the greatest usage_end_time of the kept
\* records that have the row's key, in whatever order the records come
C4_TimesAreMinAndMax ==
    TotalDone =>
        \A p \in 1..Len(aggData) :
            LET G == { i \in KeptIdx(data, key) : data[i][key] = aggData[p].key }
            IN  /\ G # {}
                /\ aggData[p].start_time = SetMin({ data[i].usage_start_time : i \in G })
                /\ aggData[p].end_time = SetMax({ data[i].usage_end_time : i \in G })

\* a row whose earliest start comes from its last record and whose latest end
\* comes from its first record, with a dropped record in between
C4_Witness ==
    /\ TotalDone
    /\ Len(data) = 3
    /\ Len(aggData) = 1
    /\ KeptIdx(data, key) = {1, 3}
    /\ data[1].usage_start_time > data[3].usage_start_time
    /\ data[1].usage_end_time > data[3].usage_end_time
    /\ data[2].usage_start_time < data[1].usage_start_time
    /\ aggData[1].start_time = data[3].usage_start_time
    /\ aggData[1].end_time = data[1].usage_end_time

\* C5: prepareDetails(records, k) returns exactly one row for each distinct
\* pair (record[k], record.sku.description) among the kept records, and the
\* row's cost is the sum of the costs of the kept records with that pair
C5_OneDetailRowPerKeyAndSku ==
    DetailsDone =>
        /\ \A p, q \in 1..Len(aggData) :
            p # q => <<aggData[p].key, aggData[p].batch_resource>>
                        # <<aggData[q].key, aggData[q].batch_resource>>
        /\ { <<aggData[p].key, aggData[p].batch_resource>> : p \in 1..Len(aggData) }
            = { <<data[i][key], data[i].sku>> : i \in KeptIdx(data, key) }
        /\ \A p \in 1..Len(aggData) :
            aggData[p].cost =
                SumCostAt(data, { i \in KeptIdx(data, key) :
                                    /\ data[i][key] = aggData[p].key
                                    /\ data[i].sku = aggData[p].batch_resource })

\* one key with two resources, the first of them charged twice
C5_Witness ==
    /\ DetailsDone
    /\ Len(data) = 3
    /\ Len(aggData) = 2
    /\ aggData[1].key = aggData[2].key
    /\ aggData[1].batch_resource # aggData[2].batch_resource
    /\ aggData[1].cost = 4

\* C8: prepareTotalRow and prepareDetails raise no error on any record list,
\* and drop a record with undefined grouping key or negative cost silently
\* also when it has no sku object
C8_NoErrorOnDroppedRecord ==
    ~(pc = "error" /\ ~Kept(data[Len(data)], key) /\ data[Len(data)].sku = Undefined)

\* the set of (key, total cost) pairs of an array of rows
KeyCostPairs(rows) == { <<rows[p].key, rows[p].cost>> : p \in 1..Len(rows) }

\* the array with the records at i and j exchanged
Exchanged(records, i, j) ==
    [records EXCEPT ![i] = records[j], ![j] = records[i]]

\* C9: prepareTotalRow returns the same set of (key, total cost) pairs for
\* every permutation of the record list. Stated for the exchange of any two
\* records of any list: every list is an input here, and the exchanges
\* generate the permutations.
C9_TotalsIndependentOfOrder ==
    TotalDone =>
        \A i, j \in 1..Len(data) :
            i < j => KeyCostPairs(prepareTotalRow(Exchanged(data, i, j), key))
                        = KeyCostPairs(aggData)

\* two keys interleaved: the permutations change the order in which the keys
\* are first seen and the neighbours of each record
C9_Witness ==
    /\ TotalDone
    /\ Len(data) = 3
    /\ KeptIdx(data, key) = {1, 2, 3}
    /\ data[1][key] = data[3][key]
    /\ data[2][key] # data[1][key]
    /\ data[1].cost = 2
    /\ data[3].cost = 2
    /\ KeyCostPairs(aggData) = { <<data[1][key], 4>>, <<data[2][key], data[2].cost>> }

\* the index of the first kept record of the array that has the group of row d:
\* its key for prepareTotalRow, its key and sku for prepareDetails
FirstSeen(d) ==
    SetMin({ i \in KeptIdx(data, key) :
                /\ data[i][key] = d.key
                /\ fn = "prepareDetails" => data[i].sku = d.batch_resource })

\* C10: the rows returned by prepareTotalRow and by prepareDetails are in
\* first-seen order: a row whose key (or key and sku) first occurs in an earlier
\* kept record precedes every row whose key first occurs in a later one
C10_RowsInFirstSeenOrder ==
    pc = "done" =>
        \A p, q \in 1..Len(aggData) :
            FirstSeen(aggData[p]) < FirstSeen(aggData[q]) => p < q

\* two rows of prepareDetails that follow a dropped record, which took no place
C10_Witness ==
    /\ DetailsDone
    /\ Len(data) = 3
    /\ Len(aggData) = 2
    /\ ~Kept(data[1], key)
    /\ FirstSeen(aggData[1]) = 2
    /\ FirstSeen(aggData[2]) = 3

GridCombined == pc = "combined"

\* every record of the input is kept when grouping by key k
NothingDropped(k) == KeptIdx(data, k) = 1..Len(data)

\* C6: in every combined row of CromwellDataProcGrid the costs of the details
\* add up to at most the row's total cost, and to exactly that cost when no
\* record was dropped
C6_DetailsSumWithinTotal ==
    GridCombined =>
        \A i \in 1..Len(combinedData) :
            /\ SumCost(combinedData[i].details) <= combinedData[i].cost
            /\ NothingDropped(combinedData[i].type)
                => SumCost(combinedData[i].details) = combinedData[i].cost

\* the same key value under two grouping types, two resources, nothing dropped
C6_Witness ==
    /\ GridCombined
    /\ Len(data) = 2
    /\ \E i, j \in 1..Len(combinedData) :
        /\ combinedData[i].key = combinedData[j].key
        /\ combinedData[i].type = "ar-guid"
        /\ combinedData[j].type = "wdl-task-name"
        /\ NothingDropped("ar-guid")
        /\ Len(combinedData[i].details) = 2
        /\ Len(combinedData[j].details) = 1
        /\ combinedData[i].cost = 4
        /\ combinedData[j].cost = 2

Range(seq) == { seq[i] : i \in 1..Len(seq) }

\* C7: the details of each combined row are exactly the detail rows whose key
\* and type both equal the row's, in the order of aggResource, and every detail
\* row of the four prepareDetails calls is attached to exactly one combined row
C7_DetailsMatchKeyAndType ==
    GridCombined =>
        /\ \A i \in 1..Len(combinedData) :
            LET Mine(r) == r.key = combinedData[i].key /\ r.type = combinedData[i].type
            IN  combinedData[i].details = SelectSeq(aggResource, Mine)
        /\ \A j \in 1..Len(aggResource) :
            Cardinality({ i \in 1..Len(combinedData) :
                            aggResource[j] \in Range(combinedData[i].details) }) = 1

\* two keys of one type and the same key value under another type
C7_Witness ==
    /\ GridCombined
    /\ \E i, j, m \in 1..Len(combinedData) :
        /\ combinedData[i].type = combinedData[j].type
        /\ combinedData[i].key # combinedData[j].key
        /\ combinedData[m].type # combinedData[i].type
        /\ combinedData[m].key = combinedData[i].key
        /\ combinedData[i].details # <<>>
        /\ combinedData[j].details # <<>>
        /\ combinedData[m].details # <<>>

LayoutDone == fn = "ProjectGrid" /\ pc = "rendered"

\* the number of assays of a sample: those of the lists that are present, over
\* the first n of its sequencing groups
RECURSIVE AssaysUpTo(_, _)
AssaysUpTo(s, n) ==
    IF n = 0 THEN 0
    ELSE AssaysUpTo(s, n - 1)
         + (IF s.sequencing_groups.items[n].assays.defined
            THEN s.sequencing_groups.items[n].assays.length ELSE 0)

TotalAssays(s) == AssaysUpTo(s, Len(s.sequencing_groups.items))

\* the sum of max(1, total assays) over the first n samples of a participant
RECURSIVE SpanUpTo(_, _)
SpanUpTo(p, n) ==
    IF n = 0 THEN 0
    ELSE SpanUpTo(p, n - 1)
         + (IF TotalAssays(p.samples[n]) > 1 THEN TotalAssays(p.samples[n]) ELSE 1)

\* the cells of one kind among the rendered rows, as <<row, cell>> positions
CellsOf(group) ==
    { rc \in (1..Len(tableRows)) \X (1..4) :
        /\ rc[2] <= Len(tableRows[rc[1]].cells)
        /\ tableRows[rc[1]].cells[rc[2]].group = group }

\* C12: the row span of a participant's cells is the sum, over the
\* participant's samples, of max(1, number of assays of the sample): every
\* participant cell that is rendered carries that sum as its rowSpan.
C12_ParticipantSpanIsSumOfMax ==
    LayoutDone =>
        \A rc \in CellsOf("participant") :
            tableRows[rc[1]].cells[rc[2]].rowSpan
                = SpanUpTo(participant, Len(participant.samples))

\* a participant with a sample of three assays and a sample of none: span 4
C12_Witness ==
    /\ LayoutDone
    /\ Len(participant.samples) = 2
    /\ TotalAssays(participant.samples[1]) = 3
    /\ TotalAssays(participant.samples[2]) = 0
    /\ \E rc \in CellsOf("participant") : tableRows[rc[1]].cells[rc[2]].rowSpan = 4

\* the rendered rows of the sample at position i of the participant, and those
\* of its sequencing group at position g (positions from 1)
RowsOfSample(i) == { r \in 1..Len(tableRows) : tableRows[r].sidx = i - 1 }
RowsOfSg(i, g) == { r \in RowsOfSample(i) : tableRows[r].sgidx = g - 1 }

\* the cells of one kind in row r
CellsIn(r, group) ==
    { c \in 1..Len(tableRows[r].cells) : tableRows[r].cells[c].group = group }

\* the number of rows a cell covers: a rowSpan that is left out counts as 1
Covered(span) == IF span = 0 THEN 1 ELSE span

\* C13: the row span on the cells of a participant and of a sample (absent
\* counted as 1) is the number of rows rendered for that participant and for
\* that sample.
C13_SpanIsRenderedRows ==
    LayoutDone =>
        /\ \A rc \in CellsOf("participant") :
              Covered(tableRows[rc[1]].cells[rc[2]].rowSpan) = Len(tableRows)
        /\ \A rc \in CellsOf("sample") :
              Covered(tableRows[rc[1]].cells[rc[2]].rowSpan)
                  = Cardinality(RowsOfSample(tableRows[rc[1]].sidx + 1))

\* C14: a sample without sequencing groups (list missing or empty) renders
\* exactly one row, and a sequencing group without assays (list missing or
\* empty) renders exactly one row.
C14_PlaceholderRendersOneRow ==
    LayoutDone =>
        \A i \in 1..Len(participant.samples) :
            LET groups == participant.samples[i].sequencing_groups.items
            IN  /\ groups = <<>> => Cardinality(RowsOfSample(i)) = 1
                /\ \A g \in 1..Len(groups) :
                      (~groups[g].assays.defined \/ groups[g].assays.length = 0)
                          => Cardinality(RowsOfSg(i, g)) = 1

\* C15: the participant renders at least one row, and so does each of its
\* samples.
C15_AtLeastOneRow ==
    LayoutDone =>
        /\ Len(tableRows) >= 1
        /\ \A i \in 1..Len(participant.samples) : RowsOfSample(i) # {}

\* C16: among the rows of a participant, of a sample and of a sequencing
\* group, the first row and no other carries the cells of that participant,
\* sample or sequencing group.
C16_CellsOnFirstRowOnly ==
    LayoutDone =>
        /\ \A r \in 1..Len(tableRows) :
              (CellsIn(r, "participant") # {}) <=> (r = 1)
        /\ \A i \in 1..Len(participant.samples) : \A r \in RowsOfSample(i) :
              (CellsIn(r, "sample") # {}) <=> (\A q \in RowsOfSample(i) : r <= q)
        /\ \A i \in 1..Len(participant.samples) :
              \A g \in 1..Len(sgs(participant.samples[i])) : \A r \in RowsOfSg(i, g) :
                  (CellsIn(r, "sequencing_group") # {})
                      <=> (\A q \in RowsOfSg(i, g) : r <= q)

\* C17: the rowSpan written on the cells of a sample is the number of assays
\* of all its sequencing groups, and is left out when that number is zero.
C17_SampleSpanIsTotalAssays ==
    LayoutDone =>
        \A rc \in CellsOf("sample") :
            LET total == TotalAssays(participant.samples[tableRows[rc[1]].sidx + 1])
                span == tableRows[rc[1]].cells[rc[2]].rowSpan
            IN  IF total = 0 THEN span = 0 ELSE span = total

\* a sample of two sequencing groups of three assays (span 6) and a sample
\* without assays (no span)
C17_Witness ==
    /\ LayoutDone
    /\ Len(participant.samples) = 2
    /\ TotalAssays(participant.samples[1]) = 6
    /\ TotalAssays(participant.samples[2]) = 0
    /\ \E rc \in CellsOf("sample") :
          tableRows[rc[1]].sidx = 0 /\ tableRows[rc[1]].cells[rc[2]].rowSpan = 6
    /\ \E rc \in CellsOf("sample") :
          tableRows[rc[1]].sidx = 1 /\ tableRows[rc[1]].cells[rc[2]].rowSpan = 0

\* the number of own assays of the sequencing group a row belongs to; the
\* placeholder group of a sample without sequencing groups has none
OwnAssays(r) ==
    LET groups == participant.samples[tableRows[r].sidx + 1].sequencing_groups.items
    IN  IF groups = <<>> \/ ~groups[tableRows[r].sgidx + 1].assays.defined THEN 0
        ELSE groups[tableRows[r].sgidx + 1].assays.length

\* C18: the rowSpan written on the cells of a sequencing group is the number
\* of assays of that group, or covers one row (no merge) when the group has
\* no assay.
C18_GroupSpanIsOwnAssays ==
    LayoutDone =>
        \A rc \in CellsOf("sequencing_group") :
            Covered(tableRows[rc[1]].cells[rc[2]].rowSpan)
                = (IF OwnAssays(rc[1]) > 0 THEN OwnAssays(rc[1]) ELSE 1)

\* a sample whose first sequencing group has no assays and whose second has
\* three: no span on the cells of the first, span 3 on those of the second
C18_Witness ==
    /\ LayoutDone
    /\ \E rc \in CellsOf("sequencing_group") :
          /\ tableRows[rc[1]].sgidx = 1
          /\ OwnAssays(rc[1]) = 3
          /\ tableRows[rc[1]].cells[rc[2]].rowSpan = 3
    /\ \E rc \in CellsOf("sequencing_group") :
          /\ tableRows[rc[1]].sgidx = 0
          /\ OwnAssays(rc[1]) = 0
          /\ tableRows[rc[1]].cells[rc[2]].rowSpan = 0

\* C19: every cell of every row of a participant has one background colour,
\* which is one colour for the participants at even indices and another for
\* those at odd indices, so participants that follow each other differ.
C19_ColourByParticipantParity ==
    LayoutDone =>
        \A r \in 1..Len(tableRows) : \A c \in 1..Len(tableRows[r].cells) :
            /\ tableRows[r].cells[c].backgroundColor
                   \in {"var(--color-bg)", "var(--color-bg-disabled)"}
            /\ (tableRows[r].cells[c].backgroundColor = "var(--color-bg)")
                   <=> (pidx % 2 = 0)

\* the second participant of the list, with rows of one, two, three and four
\* cells
C19_Witness ==
    /\ LayoutDone
    /\ pidx = 1
    /\ Len(tableRows) >= 4
    /\ \A n \in 1..4 : \E r \in 1..Len(tableRows) : Len(tableRows[r].cells) = n
    /\ \A r \in 1..Len(tableRows) : \A c \in 1..Len(tableRows[r].cells) :
          tableRows[r].cells[c].backgroundColor = "var(--color-bg-disabled)"

\* the call of safeValue has returned
FormatDone == fn = "safeValue" /\ pc \in {"returned", "rendered"}

\* C20: for an object with a location field and a size field, whatever the
\* size, 0 included, safeValue returns the location followed by the size as
\* formatBytes writes it, in parentheses; for location "gs://x" and size 2048
\* that is "gs://x (2 KB)".
C20_FileIsLocationAndSize ==
    (FormatDone /\ arg.type = "object") =>
        /\ (arg.location # Undefined /\ arg.size # <<>>) =>
              returned = JSString(arg.location \o " (" \o formatBytes(Digits(arg.size[1])) \o ")")
        /\ arg = JSObject("gs://x", <<2048>>) => returned = JSString("gs://x (2 KB)")

\* the call of formatBytes has returned
BytesDone == fn = "formatBytes" /\ pc = "returned"

\* C21: formatBytes returns "0 Bytes" for 0, "1 KB" for 1024 and "1.5 KB" for
\* 1536, and for a positive byte count it writes the unit of index i with
\* 1024^i <= bytes < 1024^(i+1), which is one of the nine names.
C21_UnitOfByteCount ==
    BytesDone =>
        /\ arg = Digits(0) => returned = JSString("0 Bytes")
        /\ arg = Digits(1024) => returned = JSString("1 KB")
        /\ arg = Digits(1536) => returned = JSString("1.5 KB")
        /\ arg # Digits(0) =>
              \E i \in 0..8 :
                  /\ i = Len(arg) - 1
                  /\ returned
                         = JSString(FixedText(Hundredths(arg, i)) \o " " \o sizes[i + 1])

\* C22: for a falsy input (null, undefined, 0, the empty string, false)
\* safeValue returns the input itself, and the row rendered for the field
\* shows the no-value placeholder.
C22_FalsyShowsNoValue ==
    (fn = "safeValue" /\ Falsy(arg)) =>
        /\ pc \in {"returned", "rendered"} => returned = arg
        /\ pc = "rendered" => cell = [em |-> TRUE, text |-> "no-value"]

\* the text the claim gives an entry of an external-id map
IdWithCode(entry) ==
    IF entry[1] = "" THEN entry[2] ELSE entry[2] \o " (" \o entry[1] \o ")"

RECURSIVE IdsWithCodes(_)
IdsWithCodes(ids) ==
    IF ids = <<>> THEN ""
    ELSE IF Len(ids) = 1 THEN IdWithCode(ids[1])
    ELSE IdWithCode(ids[1]) \o ", " \o IdsWithCodes(Tail(ids))

\* C23: an external-id map is displayed as its pairs "<id> (<code>)" joined
\* by ", " in the order of the entries, and an entry whose code is the empty
\* string as the id alone.
C23_ExternalIdsAsIdAndCode ==
    (fn \in {"externalIds", "formatExternalIds"} /\ pc = "returned" /\ arg # <<>>) =>
        returned = JSString(IdsWithCodes(arg))

\* C24: once onClear has run for a column and the published filters are
\* applied, an onSubmit that follows with no edit in between does not bring
\* back a filter of that column: the pending filters hold no entry that was
\* cleared.
C24_ClearedFilterStaysCleared ==
    [][ /\ event'.handler = "onClear" => event'.key \notin DOMAIN tempFilterValues'
        /\ (event.handler = "onClear" /\ event'.handler = "onSubmit")
              => event.key \notin DOMAIN filterValues' ]_vars

\* C25: onClear of a column publishes the applied filters without the entry
\* of that column: the other applied filters stay as they are and no pending
\* filter that was not submitted becomes applied.
C25_ClearPublishesAppliedMinusEntry ==
    [][ event'.handler = "onClear" =>
            /\ event'.published = Without(filterValues, event'.key)
            /\ filterValues' = Without(filterValues, event'.key) ]_vars

\* C26: onFilterValueChange of a column changes the pending entry of that
\* column only (the typed value, or no entry for the empty text), and does
\* not call updateFilters; the applied filters change through onSubmit and
\* onClear only.
C26_ChangeIsPendingOnly ==
    [][ /\ event'.handler = "onFilterValueChange" =>
              /\ ~event'.called
              /\ filterValues' = filterValues
              /\ Without(tempFilterValues', event'.key) = Without(tempFilterValues, event'.key)
              /\ IF event'.value = ""
                 THEN event'.key \notin DOMAIN tempFilterValues'
                 ELSE /\ event'.key \in DOMAIN tempFilterValues'
                      /\ tempFilterValues'[event'.key].value = event'.value
        /\ filterValues' # filterValues => event'.handler \in {"onSubmit", "onClear"} ]_vars

\* the input of a column with an applied filter was emptied while another
\* column has a pending filter: the applied filter is still there
C26_Witness ==
    /\ event.handler = "onFilterValueChange"
    /\ event.value = ""
    /\ event.key \in DOMAIN filterValues
    /\ event.key \notin DOMAIN tempFilterValues
    /\ tempFilterValues # NoFilters
    /\ tempFilterValues # Without(filterValues, event.key)

\* a step of handleToggle in the displayed table
ToggleStep ==
    /\ fn = "CromwellDataProcGrid"
    /\ pc = "sorted" /\ pc' = "sorted"
    /\ openRows' # openRows
    /\ event'.handler = "handleToggle"

\* C27: toggling the checkbox of one combined row changes the open or closed
\* state of that row only: every other displayed row keeps its state, a row
\* of another grouping type with the same key value too.
C27_ToggleChangesOneRow ==
    [][ ToggleStep =>
            /\ tbody'[event'.row].checked # tbody[event'.row].checked
            /\ \A i \in 1..Len(tbody) :
                  i # event'.row => tbody'[i].checked = tbody[i].checked ]_vars

\* C28: handleToggle(position) adds position to openRows when it is absent
\* and removes it when it is present; openRows holds no value twice, and a
\* second toggle of the same position gives back the previous set of open
\* rows.
C28_ToggleAddsOrRemoves ==
    [][ ToggleStep =>
            LET position == event'.position IN
            /\ IF position \in Range(openRows)
               THEN Range(openRows') = Range(openRows) \ {position}
               ELSE Range(openRows') = Range(openRows) \cup {position}
            /\ \A i, j \in 1..Len(openRows') : openRows'[i] = openRows'[j] => i = j
            /\ Range(handleToggle(openRows', position)) = Range(openRows) ]_vars

\* the row of key "a" was toggled off while the row of key "b" stays open
C28_Witness ==
    /\ fn = "CromwellDataProcGrid" /\ pc = "sorted"
    /\ event.handler = "handleToggle"
    /\ event.position = "a"
    /\ openRows = <<"b">>
    /\ \E i \in 1..Len(tbody) : tbody[i].key = "b" /\ tbody[i].checked
    /\ \E i \in 1..Len(tbody) : tbody[i].key = "a" /\ ~tbody[i].checked

\* C29: the DURATION of a combined row is end_time minus start_time of the
\* row in whole hours, minutes and seconds, for a duration of 24 hours or
\* more too.
C29_DurationInWholeHours ==
    (fn = "CromwellDataProcGrid" /\ pc = "sorted") =>
        \A i \in 1..Len(tbody) :
            LET ms == combinedData[i].end_time - combinedData[i].start_time
                h == ms \div 3600000
                m == (ms - h * 3600000) \div 60000
                sec == (ms - h * 3600000 - m * 60000) \div 1000
            IN  tbody[i].duration
                    = ToString(h) \o "h " \o ToString(m) \o "m " \o ToString(sec) \o "s"

\* C30: the combined rows are displayed in non-increasing order of cost, and
\* the cost breakdown rows of each in non-increasing order of cost.
C30_DisplayedByDecreasingCost ==
    (fn = "CromwellDataProcGrid" /\ pc = "sorted") =>
        /\ \A i, j \in 1..Len(tbody) : i < j => tbody[i].cost >= tbody[j].cost
        /\ \A i \in 1..Len(tbody) : \A j, l \in 1..Len(tbody[i].breakdown) :
              j < l => tbody[i].breakdown[j].cost >= tbody[i].breakdown[l].cost
        /\ \A i \in 1..Len(tbody) :
              /\ Len(tbody[i].breakdown) = Len(combinedData[i].details)
              /\ \A d \in Range(combinedData[i].details) :
                    \E j \in 1..Len(tbody[i].breakdown) :
                        /\ tbody[i].breakdown[j].batch_resource = d.batch_resource
                        /\ tbody[i].breakdown[j].cost = d.cost

\* the rows were combined in increasing order of cost and the details of a
\* row were aggregated in increasing order of cost: both are displayed the
\* other way round
C30_Witness ==
    /\ fn = "CromwellDataProcGrid" /\ pc = "sorted"
    /\ Len(tbody) >= 2
    /\ Combine(allAggData, aggResource)[1].cost < Combine(allAggData, aggResource)[2].cost
    /\ tbody[1].cost > tbody[Len(tbody)].cost
    /\ \E i \in 1..Len(tbody) :
          /\ Len(combinedData[i].details) = 2
          /\ combinedData[i].details[1].cost < combinedData[i].details[2].cost
          /\ tbody[i].breakdown[1].cost > tbody[i].breakdown[2].cost

====
